---- MODULE Spec2Model ----
(***************************************************************************)
(* The All People's Simulator (gosim): the final engine of src/README.md.  *)
(* One event-loop goroutine owns the people map and selects over the       *)
(* newPerson channel, the command channel and the ticker; one Handler      *)
(* goroutine per TCP connection parses T-messages and hands events over.   *)
(*                                                                         *)
(* Geometry is modelled on an integer plane: a Node is [Id, Lat, Lon],     *)
(* geo.To is the Euclidean distance with the bearing kept as the vector    *)
(* of length WalkStep pointing at the target, geo.At adds that vector.     *)
(***************************************************************************)
EXTENDS Integers, Sequences, FiniteSets, TLC

\* ------------------------------------------------------------------ bounds
GeoRange == 40       \* largest distance the integer square root looks for

\* --------------------------------------------------------------- constants
MaxNorth == 39       \* farthest north an agent of the earlier engine is followed
STOP == 0
CONTINUE == 1
PAUSE == 2
WalkStep == 13       \* p.Move(1.56464): one tick of walking, in model units

Conns == {1, 2}
UIDs == {"a", "b"}

\* ------------------------------------------------------------------- graph
ZeroNode == [Id |-> 0, Lat |-> 0, Lon |-> 0]

\* A right triangle 10-24-26: one way walks its two legs, a second way is
\* the street along the hypotenuse.
CityOsm ==
  [ Node |-> << [Id |-> 1, Lat |-> 0,  Lon |-> 0],
                [Id |-> 2, Lat |-> 0,  Lon |-> 10],
                [Id |-> 3, Lat |-> 24, Lon |-> 10] >>,
    Way  |-> << <<1, 2, 3>>, <<3, 1>> >> ]

\* A single node that is a way of its own: every walk starts and ends here.
PlazaOsm ==
  [ Node |-> << [Id |-> 1, Lat |-> 0, Lon |-> 0] >>,
    Way  |-> << <<1>> >> ]

\* A node on a one-node way and, next to it, a node no way passes through.
HamletOsm ==
  [ Node |-> << [Id |-> 1, Lat |-> 0, Lon |-> 0],
                [Id |-> 2, Lat |-> 0, Lon |-> 5] >>,
    Way  |-> << <<1>> >> ]

\* An avenue of three nodes, a side street off its middle node, and a
\* one-node way at the end of the side street.
AvenueOsm ==
  [ Node |-> << [Id |-> 1, Lat |-> 0, Lon |-> 0],
                [Id |-> 2, Lat |-> 0, Lon |-> 2],
                [Id |-> 3, Lat |-> 0, Lon |-> 4],
                [Id |-> 4, Lat |-> 2, Lon |-> 2] >>,
    Way  |-> << <<1, 2, 3>>, <<2, 4>>, <<4>> >> ]

VARIABLES
  clients,    \* the connections that will be made (fixed by Init)
  names,      \* the names the clients use in their lines (fixed by Init)
  osm,        \* the parsed map
  wander,     \* the Wander goroutine of the earlier programs: its locals
  missed,     \* a tick fired while ticker.C was full, since the last receive
  session,    \* "nil" | "open": the mgo session
  people,     \* the registry: UID -> Person, for the registered UIDs
  tickerC,    \* ticks buffered in ticker.C (capacity 1)
  loopPc,     \* where the event-loop goroutine is
  cur,        \* the value the event loop has just received
  todo,       \* UIDs the running range loop still has to visit
  db,         \* the phones collection: UID -> DBPerson
  panicked,   \* "none", or why the process died
  conn,       \* per connection: the Handler goroutine's locals
  obs,        \* per connection: history of what happened to its event
  accessors   \* goroutines that have read or written people

vars == <<clients, names, osm, wander, missed, session, people, tickerC, loopPc, cur, todo, db,
          panicked, conn, obs, accessors>>

\* ---------------------------------------------------------------- geometry
Sq(x) == x * x

Dist2(n, m) == Sq(m.Lat - n.Lat) + Sq(m.Lon - n.Lon)

ISqrt(x) == CHOOSE k \in 0..GeoRange : k * k <= x /\ (k + 1) * (k + 1) > x

\* Node.Distance: the first result of geo.To
Distance(n, m) == ISqrt(Dist2(n, m))

\* The bearings geo.To can return for two coincident points: the library
\* is not part of the source, so bearing 0 (north) stands for it.
CoincidentBearings == {<<0, WalkStep>>}

\* Node.Distance: the second result of geo.To, <<dLon, dLat>> of length WalkStep
Bearings(n, m) ==
  LET r == Distance(n, m) IN
  IF r = 0 THEN CoincidentBearings
  ELSE {<<((m.Lon - n.Lon) * WalkStep) \div r, ((m.Lat - n.Lat) * WalkStep) \div r>>}

\* Node.Move: geo.At; the result has no Id and no ways
NodeMove(n, dist, bearing) ==
  [Id |-> 0,
   Lat |-> n.Lat + (bearing[2] * dist) \div WalkStep,
   Lon |-> n.Lon + (bearing[1] * dist) \div WalkStep]

\* ------------------------------------------------------------------- graph
\* idmap of NewOsmXml
NodeById(o, id) == CHOOSE n \in {o.Node[i] : i \in DOMAIN o.Node} : n.Id = id

\* n.Way as NewOsmXml builds it: the ways that list the node
NodeWay(o, n) ==
  {w \in DOMAIN o.Way : \E i \in DOMAIN o.Way[w] : o.Way[w][i] = n.Id}

\* w.Node
WayNodes(o, w) == {NodeById(o, o.Way[w][i]) : i \in DOMAIN o.Way[w]}

\* Osm.RandNode: every node can be drawn
OsmRandNode(o) == {o.Node[i] : i \in DOMAIN o.Node}

\* Node.RandWay: every way of the node can be drawn
RandWay(o, n) == NodeWay(o, n)

\* Way.RandNode: every node of the way can be drawn
RandNode(o, w) == WayNodes(o, w)

\* ------------------------------------------------------------------ person
NilWay == 0

\* the bearing 0.0, which is also the zero value of the field
North == <<0, WalkStep>>

NilPerson ==
  [UID |-> "", loc |-> ZeroNode, dest |-> ZeroNode, bearing |-> North,
   way |-> NilWay, enabled |-> FALSE]

\* variant: NewPerson that leaves enabled at its zero value
NewPersonNotEnabled(uid, n) ==
  [UID |-> uid, loc |-> n, dest |-> ZeroNode, bearing |-> North,
   way |-> NilWay, enabled |-> FALSE]

NewPerson(uid, n) ==
  [UID |-> uid, loc |-> n, dest |-> ZeroNode, bearing |-> North,
   way |-> NilWay, enabled |-> TRUE]

\* variant: the destination is drawn from all the nodes of the map
DecideAnyNode(o, p) ==
  IF RandWay(o, p.loc) = {} THEN {[p |-> p, panic |-> TRUE]}
  ELSE {[p |-> [p EXCEPT !.way = w1, !.dest = d], panic |-> FALSE] :
          w1 \in RandWay(o, p.loc), d \in OsmRandNode(o)}

\* "Decide where to go": p.SetWay(p.Loc().RandWay());
\* p.SetDest((p.Loc().RandWay()).RandNode()), two independent draws.
\* Intn(0) panics when the node has no way.
Decide(o, p) ==
  IF RandWay(o, p.loc) = {} THEN {[p |-> p, panic |-> TRUE]}
  ELSE {[p |-> [p EXCEPT !.way = w1, !.dest = d], panic |-> FALSE] :
          w1 \in RandWay(o, p.loc),
          d \in UNION {RandNode(o, w2) : w2 \in RandWay(o, p.loc)}}

\* variant: Person.Move that tests the remaining distance before it moves
\* and moves only when a whole step is left
PersonMoveSnapFirst(o, p, dist) ==
  UNION { LET turned == [p EXCEPT !.bearing = b] IN
          IF Distance(p.loc, p.dest) < dist
          THEN Decide(o, [turned EXCEPT !.loc = p.dest])
          ELSE {[p |-> [turned EXCEPT !.loc = NodeMove(p.loc, dist, b)],
                 panic |-> FALSE]}
        : b \in Bearings(p.loc, p.dest) }

\* Person.Move: the outcomes of one call
PersonMove(o, p, dist) ==
  UNION { LET moved == [p EXCEPT !.bearing = b,
                                  !.loc = NodeMove(p.loc, dist, b)] IN
          IF Distance(moved.loc, moved.dest) < dist
          THEN Decide(o, [moved EXCEPT !.loc = moved.dest])
          ELSE {[p |-> moved, panic |-> FALSE]}
        : b \in Bearings(p.loc, p.dest) }

\* --------------------------------------------------------------- registry
Registered == DOMAIN people

\* variant: the map is replaced by one that holds only the new person
PeoplePutAlone(p) == [u \in {p.UID} |-> p]

PeoplePut(p) == [u \in Registered \cup {p.UID} |-> IF u = p.UID THEN p ELSE people[u]]

PeopleDelete(uid) == [u \in Registered \ {uid} |-> people[u]]

\* ----------------------------------------------------------------- values
\* the engine programs start no Wander goroutine
NoWander == [pc |-> "none"]

NoTok == [cmd |-> "", args |-> <<>>]
NoCur == [kind |-> "none", p |-> NilPerson, Command |-> STOP, UID |-> "", from |-> 0]
NoRow == [UID |-> "", Lat |-> 0, Lon |-> 0]
NoReply == ""

ArgLists == {<<>>} \cup {<<u>> : u \in names}

InitConn ==
  [pc |-> "idle", tok |-> NoTok, p |-> NilPerson, reply |-> NoReply]

InitObs == [res |-> "none", chain |-> FALSE, order |-> "none"]

\* the process right after init(), before main has dialled
Started ==
  /\ session = "nil"
  /\ people = [u \in {} |-> NilPerson]
  /\ tickerC = 0
  /\ missed = FALSE
  /\ loopPc = "select"
  /\ cur = NoCur
  /\ todo = {}
  /\ db = [u \in UIDs |-> NoRow]
  /\ panicked = "none"
  /\ conn = [c \in Conns |-> InitConn]
  /\ obs = [c \in Conns |-> InitObs]
  /\ accessors = {}

\* one client, two names, the smallest map
Init ==
  /\ clients = {1}
  /\ names = UIDs
  /\ osm = PlazaOsm
  /\ wander = NoWander
  /\ Started

Running == panicked = "none"

\* a panic in any goroutine ends the process: every goroutine and all of
\* its memory are gone, only the map file and the database remain
Crash(reason) ==
  /\ panicked' = reason
  /\ session' = "nil"
  /\ people' = [u \in {} |-> NilPerson]
  /\ tickerC' = 0
  /\ loopPc' = "dead"
  /\ cur' = NoCur
  /\ todo' = {}
  /\ conn' = [c \in Conns |-> [InitConn EXCEPT !.pc = "closed"]]
  /\ obs' = [c \in Conns |-> InitObs]
  /\ missed' = FALSE
  /\ UNCHANGED <<clients, names, osm, wander, db, accessors>>


\* -------------------------------------------------------------------- main
\* main: mgo.Dial, then the accept loop may start handlers
MainDial ==
  /\ Running
  /\ session = "nil"
  /\ \/ /\ session' = "open"
        /\ UNCHANGED <<clients, names, osm, wander, missed, people, tickerC, loopPc, cur, todo, db, panicked, conn,
                       obs, accessors>>
     \/ Crash("dial")

\* main: l.AcceptTCP(); go Handler(c)
Accept(c) ==
  /\ Running
  /\ session = "open"
  /\ c \in clients
  /\ conn[c].pc = "idle"
  /\ conn' = [conn EXCEPT ![c].pc = "read"]
  /\ UNCHANGED <<clients, names, osm, wander, missed, session, people, tickerC, loopPc, cur, todo, db,
                 panicked, obs, accessors>>

\* ------------------------------------------------------------------ ticker
\* variant: a command can be handed over only while no tick is waiting
SendingCommandTickFirst(c) ==
  conn[c].pc = "send" /\ conn[c].tok.cmd # "Tstart" /\ tickerC = 0

SendingCommand(c) == conn[c].pc = "send" /\ conn[c].tok.cmd # "Tstart"

\* variant: a ticker whose channel keeps every tick until it is received
TickerFireQueues ==
  /\ Running
  /\ tickerC' = tickerC + 1
  /\ obs' = [c \in Conns |->
               IF tickerC = 0 /\ SendingCommand(c) /\ obs[c].order = "none"
               THEN [obs[c] EXCEPT !.order = "cmdFirst"]
               ELSE obs[c]]
  /\ UNCHANGED <<clients, names, osm, wander, missed, session, people, loopPc, cur, todo,
                 db, panicked, conn, accessors>>

\* time.NewTicker(1e9): a tick is put in ticker.C, or dropped when one is
\* already waiting there
TickerFire ==
  /\ Running
  /\ tickerC' = 1
  /\ missed' = (missed \/ tickerC = 1)
  /\ obs' = [c \in Conns |->
               IF tickerC = 0 /\ SendingCommand(c) /\ obs[c].order = "none"
               THEN [obs[c] EXCEPT !.order = "cmdFirst"]
               ELSE obs[c]]
  /\ UNCHANGED <<clients, names, osm, wander, session, people, loopPc, cur, todo, db, panicked,
                 conn, accessors>>

\* ----------------------------------------------------------------- handler
\* Handler: a line has been read and split; the handler function is entered
Reading(c) == Running /\ conn[c].pc = "read"

HandlerFrame == <<clients, names, osm, wander, missed, session, people, tickerC, loopPc, cur, todo, db, accessors>>

\* the line is handed to the handler function h(c, tok[1:])
Entered(c, word, args) ==
  [conn[c] EXCEPT !.tok = [cmd |-> word, args |-> args],
                  !.reply = NoReply]


\* Handler: readline fails, the connection is closed
HandlerEOF(c) ==
  /\ Running
  /\ conn[c].pc = "read"
  /\ conn' = [conn EXCEPT ![c] = [InitConn EXCEPT !.pc = "closed"]]
  /\ obs' = [obs EXCEPT ![c] = InitObs]
  /\ UNCHANGED <<panicked>>
  /\ UNCHANGED HandlerFrame

\* Handler: handlers[tok[0]] is nil
HandlerUnknown(c) ==
  /\ Reading(c)
  /\ conn' = [conn EXCEPT ![c] = [Entered(c, "Tbogus", <<>>) EXCEPT !.reply = "Rerror"]]
  /\ obs' = [obs EXCEPT ![c] = InitObs]
  /\ UNCHANGED <<panicked>>
  /\ UNCHANGED HandlerFrame

\* a handler function indexes args[0] of an empty slice: tok[1:] is never nil
IndexPanic == Crash("index out of range")

\* HandleStart up to the send on newPerson
HandleStart(c, args) ==
  /\ Reading(c)
  /\ IF args = <<>> THEN IndexPanic
     ELSE IF OsmRandNode(osm) = {} THEN Crash("Intn")
     ELSE \E n \in OsmRandNode(osm) :
            \E out \in Decide(osm, NewPerson(args[1], n)) :
              IF out.panic THEN Crash("Intn")
              ELSE /\ conn' = [conn EXCEPT ![c] =
                        [Entered(c, "Tstart", args) EXCEPT !.p = out.p, !.pc = "send"]]
                   /\ obs' = [obs EXCEPT ![c] = [InitObs EXCEPT !.chain = TRUE]]
                   /\ UNCHANGED panicked
                   /\ UNCHANGED HandlerFrame

\* HandlePos: the whole function, it only talks to the database
HandlePos(c, args) ==
  /\ Reading(c)
  /\ IF args = <<>> THEN IndexPanic
     ELSE /\ conn' = [conn EXCEPT ![c] =
                [Entered(c, "Tpos", args) EXCEPT
                   !.reply = "Rpos"]]
          /\ obs' = [obs EXCEPT ![c] = InitObs]
          /\ UNCHANGED panicked
          /\ UNCHANGED HandlerFrame

\* HandleStop, HandlePause, HandleCont up to the send on command
SendCommand(c, word, args, chain) ==
  /\ Reading(c)
  /\ IF args = <<>> THEN IndexPanic
     ELSE /\ conn' = [conn EXCEPT ![c] = [Entered(c, word, args) EXCEPT !.pc = "send"]]
          /\ obs' = [obs EXCEPT ![c] = [InitObs EXCEPT !.chain = chain]]
          /\ UNCHANGED panicked
          /\ UNCHANGED HandlerFrame

\* variant: HandleStop of the earlier engine: the handler goroutine itself
\* removes the person from the map and answers
HandleStopInHandler(c, args) ==
  /\ Reading(c)
  /\ IF args = <<>> THEN IndexPanic
     ELSE /\ conn' = [conn EXCEPT ![c] = [Entered(c, "Tstop", args) EXCEPT !.reply = "Rstop"]]
          /\ obs' = [obs EXCEPT ![c] = InitObs]
          /\ people' = PeopleDelete(args[1])
          /\ accessors' = accessors \cup {"handler"}
          /\ UNCHANGED <<clients, names, osm, wander, missed, session, tickerC, loopPc, cur, todo, db,
                         panicked>>

HandleStop(c, args) == SendCommand(c, "Tstop", args, FALSE)

HandlePause(c, args) ==
  SendCommand(c, "Tpause", args,
              obs[c].chain /\ conn[c].tok = [cmd |-> "Tstart", args |-> args])

HandleCont(c, args) == SendCommand(c, "Tcontinue", args, FALSE)

RWord(word) ==
  CASE word = "Tstart" -> "Rstart"
    [] word = "Tstop" -> "Rstop"
    [] word = "Tpause" -> "Rpause"
    [] word = "Tcontinue" -> "Rcontinue"
    [] OTHER -> "Rerror"

\* the send has returned: fmt.Fprintf(c, "R... %s\n", uid), back to readline
HandlerReply(c) ==
  /\ Running
  /\ conn[c].pc = "sent"
  /\ conn' = [conn EXCEPT ![c].pc = "read",
                          ![c].p = NilPerson,
                          ![c].reply = RWord(conn[c].tok.cmd)]
  /\ UNCHANGED <<obs, panicked>>
  /\ UNCHANGED HandlerFrame

\* -------------------------------------------------------------- event loop
CommandOf(word) ==
  CASE word = "Tstop" -> STOP
    [] word = "Tcontinue" -> CONTINUE
    [] OTHER -> PAUSE

\* variant: the channels are served while a tick is still being worked on
AtSelectDuringTick == loopPc \in {"select", "sweep", "publish"}

\* variant: the channels are served before the last event has been applied
AtSelectBeforeApply == loopPc \in {"select", "newPerson", "command"}

\* the select statement is only reached between two events
AtSelect == loopPc = "select"

LoopFrame == <<clients, names, osm, wander, missed, session, tickerC, db>>

\* another connection's event on uid has been applied: uid is no longer
\* the exclusive business of the connections that were tracking it
Touch(o, from, uid) ==
  [c \in Conns |-> IF c # from /\ conn[c].tok.args = <<uid>>
                   THEN [o[c] EXCEPT !.chain = FALSE] ELSE o[c]]

\* case p := <-newPerson: the rendezvous with a blocked HandleStart
LoopRecvPerson(c) ==
  /\ Running
  /\ AtSelect
  /\ conn[c].pc = "send"
  /\ conn[c].tok.cmd = "Tstart"
  /\ cur' = [NoCur EXCEPT !.kind = "person", !.p = conn[c].p, !.UID = conn[c].p.UID, !.from = c]
  /\ loopPc' = "newPerson"
  /\ conn' = [conn EXCEPT ![c].pc = "sent"]
  /\ obs' = [obs EXCEPT ![c].res = "none"]
  /\ UNCHANGED <<people, todo, panicked, accessors>>
  /\ UNCHANGED LoopFrame

\* people[p.UID] = p
LoopStorePerson ==
  /\ Running
  /\ loopPc = "newPerson"
  /\ people' = PeoplePut(cur.p)
  /\ obs' = Touch([obs EXCEPT ![cur.from].res =
                     IF cur.UID \in Registered THEN "dup" ELSE "ok"],
                  cur.from, cur.UID)
  /\ accessors' = accessors \cup {"loop"}
  /\ loopPc' = "select"
  /\ cur' = NoCur
  /\ UNCHANGED <<todo, panicked, conn>>
  /\ UNCHANGED LoopFrame

\* case c := <-command: the rendezvous with a blocked HandleStop/Pause/Cont
LoopRecvCommand(c) ==
  /\ Running
  /\ AtSelect
  /\ SendingCommand(c)
  /\ cur' = [NoCur EXCEPT !.kind = "command",
                          !.Command = CommandOf(conn[c].tok.cmd),
                          !.UID = conn[c].tok.args[1],
                          !.from = c]
  /\ loopPc' = "command"
  /\ conn' = [conn EXCEPT ![c].pc = "sent"]
  /\ obs' = [obs EXCEPT ![c].res = "none"]
  /\ UNCHANGED <<people, todo, panicked, accessors>>
  /\ UNCHANGED LoopFrame

\* variant: STOP only disables the person and leaves it in the map
ApplyCommandStopDisables(c) ==
  IF c.UID \notin Registered
  THEN [people |-> people, panic |-> c.Command # STOP]
  ELSE [people |-> [people EXCEPT ![c.UID].enabled = (c.Command = CONTINUE)],
        panic |-> FALSE]

\* variant: PAUSE and CONTINUE flip the flag instead of setting it
ApplyCommandToggles(c) ==
  IF c.Command = STOP
  THEN [people |-> PeopleDelete(c.UID), panic |-> FALSE]
  ELSE IF c.UID \notin Registered
  THEN [people |-> people, panic |-> TRUE]
  ELSE [people |-> [people EXCEPT ![c.UID].enabled = ~people[c.UID].enabled],
        panic |-> FALSE]

\* switch c.Command: people[c.UID] is nil for an unregistered UID, and
\* assigning to its field is a nil pointer dereference
ApplyCommand(c) ==
  IF c.Command = STOP
  THEN [people |-> PeopleDelete(c.UID), panic |-> FALSE]
  ELSE IF c.UID \notin Registered
  THEN [people |-> people, panic |-> TRUE]
  ELSE [people |-> [people EXCEPT ![c.UID].enabled = (c.Command = CONTINUE)],
        panic |-> FALSE]

LoopApplyCommand ==
  /\ Running
  /\ loopPc = "command"
  /\ LET out == ApplyCommand(cur) IN
       IF out.panic THEN Crash("nil dereference")
       ELSE /\ people' = out.people
            /\ obs' = Touch([obs EXCEPT ![cur.from].res =
                               IF cur.UID \notin Registered THEN "unknown"
                               ELSE IF out.people = people THEN "same"
                               ELSE "ok"],
                            cur.from, cur.UID)
            /\ accessors' = accessors \cup {"loop"}
            /\ loopPc' = "select"
            /\ cur' = NoCur
            /\ UNCHANGED <<todo, conn, panicked>>
            /\ UNCHANGED LoopFrame

\* case <-ticker.C: the range loop over people starts
LoopRecvTick ==
  /\ Running
  /\ AtSelect
  /\ tickerC = 1
  /\ tickerC' = 0
  /\ missed' = FALSE
  /\ loopPc' = "sweep"
  /\ todo' = Registered
  /\ accessors' = accessors \cup {"loop"}
  /\ UNCHANGED <<clients, names, osm, wander, session, db, people, cur, panicked, conn, obs>>

\* variant: the range loop of the earlier engine: every person is moved
TickBodyMovesAll(o, p) == PersonMove(o, p, WalkStep)

\* variant: the range loop moves every person and enables it
TickBodyWakes(o, p) ==
  {[p |-> [out.p EXCEPT !.enabled = TRUE], panic |-> out.panic] :
     out \in PersonMove(o, p, WalkStep)}

\* the body of the range loop: if p.enabled == true { p.Move(1.56464) }
TickBody(o, p) ==
  IF p.enabled = TRUE
  THEN PersonMove(o, p, WalkStep)
  ELSE {[p |-> p, panic |-> FALSE]}

\* one iteration of the range loop over people
LoopMove(u) ==
  /\ Running
  /\ loopPc = "sweep"
  /\ u \in todo
  /\ \E out \in TickBody(osm, people[u]) :
       IF out.panic THEN Crash("Intn")
       ELSE /\ people' = [people EXCEPT ![u] = out.p]
            /\ todo' = todo \ {u}
            /\ accessors' = accessors \cup {"loop"}
            /\ UNCHANGED <<loopPc, cur, conn, obs, panicked>>
            /\ UNCHANGED LoopFrame

\* variant: UpdatePeople that publishes only the agents the sweep moved
LoopUpdatePeopleEnabledOnly ==
  /\ Running
  /\ loopPc = "sweep"
  /\ todo = {}
  /\ IF session = "nil" \/ Registered = {}
     THEN loopPc' = "select" /\ UNCHANGED todo
     ELSE /\ loopPc' = "publish"
          /\ todo' = {u \in Registered : people[u].enabled = TRUE}
  /\ accessors' = accessors \cup {"loop"}
  /\ UNCHANGED <<people, cur, panicked, conn, obs>>
  /\ UNCHANGED LoopFrame

\* UpdatePeople is called: nothing to do without a session or without people
LoopUpdatePeople ==
  /\ Running
  /\ loopPc = "sweep"
  /\ todo = {}
  /\ IF session = "nil" \/ Registered = {}
     THEN loopPc' = "select" /\ UNCHANGED todo
     ELSE loopPc' = "publish" /\ todo' = Registered
  /\ accessors' = accessors \cup {"loop"}
  /\ UNCHANGED <<people, cur, panicked, conn, obs>>
  /\ UNCHANGED LoopFrame

DBPerson(p) == [UID |-> p.UID, Lat |-> p.loc.Lat, Lon |-> p.loc.Lon]

\* UpdatePeople: one c.Upsert of the range loop; an error panics
LoopUpsert(u) ==
  /\ Running
  /\ loopPc = "publish"
  /\ u \in todo
  /\ \/ /\ db' = [db EXCEPT ![u] = DBPerson(people[u])]
        /\ todo' = todo \ {u}
        /\ loopPc' = IF todo \ {u} = {} THEN "select" ELSE "publish"
        /\ accessors' = accessors \cup {"loop"}
        /\ UNCHANGED <<clients, names, osm, wander, missed, session, tickerC, people, cur, conn, obs,
                       panicked>>
     \/ Crash("upsert")

Next ==
  \/ MainDial
  \/ TickerFire
  \/ \E c \in Conns : Accept(c)
  \/ \E c \in Conns : HandlerEOF(c)
  \/ \E c \in Conns : HandlerUnknown(c)
  \/ \E c \in Conns : \E args \in ArgLists : HandleStart(c, args)
  \/ \E c \in Conns : \E args \in ArgLists : HandlePos(c, args)
  \/ \E c \in Conns : \E args \in ArgLists : HandleStop(c, args)
  \/ \E c \in Conns : \E args \in ArgLists : HandlePause(c, args)
  \/ \E c \in Conns : \E args \in ArgLists : HandleCont(c, args)
  \/ \E c \in Conns : HandlerReply(c)
  \/ \E c \in Conns : LoopRecvPerson(c)
  \/ LoopStorePerson
  \/ \E c \in Conns : LoopRecvCommand(c)
  \/ LoopApplyCommand
  \/ LoopRecvTick
  \/ \E u \in UIDs : LoopMove(u)
  \/ LoopUpdatePeople
  \/ \E u \in UIDs : LoopUpsert(u)

Spec == Init /\ [][Next]_vars

\* one client and one name on the triangle map: the walk itself
InitWalk ==
  /\ clients = {1}
  /\ names = {"a"}
  /\ osm = CityOsm
  /\ wander = NoWander
  /\ Started

SpecWalk == InitWalk /\ [][Next]_vars

\* two clients that both talk about one name
InitPair ==
  /\ clients = {1, 2}
  /\ names = {"a"}
  /\ osm = PlazaOsm
  /\ wander = NoWander
  /\ Started

SpecPair == InitPair /\ [][Next]_vars


\* one client and one name on the map with an isolated node
InitHamlet ==
  /\ clients = {1}
  /\ names = {"a"}
  /\ osm = HamletOsm
  /\ wander = NoWander
  /\ Started

SpecHamlet == InitHamlet /\ [][Next]_vars


\* one client and one name on the smallest map, with the scheduling the
\* runtime gives: a goroutine that can run does run, and the select of the
\* event loop, which draws at random among its ready cases, does not pass
\* over a case that is ready again and again
InitSolo ==
  /\ clients = {1}
  /\ names = {"a"}
  /\ osm = PlazaOsm
  /\ wander = NoWander
  /\ Started

Fairness ==
  /\ WF_vars(LoopStorePerson)
  /\ WF_vars(LoopApplyCommand)
  /\ WF_vars(LoopUpdatePeople)
  /\ \A u \in UIDs : WF_vars(LoopMove(u)) /\ WF_vars(LoopUpsert(u))
  /\ \A c \in Conns : /\ WF_vars(HandlerReply(c))
                       /\ SF_vars(LoopRecvPerson(c))
                       /\ SF_vars(LoopRecvCommand(c))

SpecFair == InitSolo /\ [][Next]_vars /\ Fairness

\* ------------------------------------------------- the shared randomizer
\* The final engine with the uses of the package-level randomizer as steps
\* of their own: HandleStart is at "plan" while it draws its node, way and
\* destination, the event loop is at "replan" while Person.Move draws at
\* an arrival.  rand.Rand has no lock.

\* the goroutines that are inside a draw from the randomizer
RandomizerUsers ==
  {c \in Conns : conn[c].pc = "plan"} \cup (IF loopPc = "replan" THEN {0} ELSE {})

\* HandleStart: uid := args[0], up to the call of osm.RandNode()
HandleStartEnter(c, args) ==
  /\ Reading(c)
  /\ IF args = <<>> THEN IndexPanic
     ELSE /\ conn' = [conn EXCEPT ![c] = [Entered(c, "Tstart", args) EXCEPT !.pc = "plan"]]
          /\ obs' = [obs EXCEPT ![c] = [InitObs EXCEPT !.chain = TRUE]]
          /\ UNCHANGED panicked
          /\ UNCHANGED HandlerFrame

\* HandleStart: the draws, up to the send on newPerson.  Draws made while
\* another goroutine is inside the randomizer give values in range or
\* break the source.
HandleStartPlan(c) ==
  /\ Running
  /\ conn[c].pc = "plan"
  /\ \/ \E n \in OsmRandNode(osm) :
          \E out \in Decide(osm, NewPerson(conn[c].tok.args[1], n)) :
            IF out.panic THEN Crash("Intn")
            ELSE /\ conn' = [conn EXCEPT ![c].p = out.p, ![c].pc = "send"]
                 /\ UNCHANGED <<obs, panicked>>
                 /\ UNCHANGED HandlerFrame
     \/ /\ RandomizerUsers # {c}
        /\ Crash("randomizer race")

\* Person.Move up to the test of the remaining distance: the outcomes
PersonStep(p, dist) ==
  {[p EXCEPT !.bearing = b, !.loc = NodeMove(p.loc, dist, b)] : b \in Bearings(p.loc, p.dest)}

\* one iteration of the range loop, up to the draws of an arrival
LoopMoveStep(u) ==
  /\ Running
  /\ loopPc = "sweep"
  /\ u \in todo
  /\ accessors' = accessors \cup {"loop"}
  /\ IF people[u].enabled = TRUE
     THEN \E moved \in PersonStep(people[u], WalkStep) :
            IF Distance(moved.loc, moved.dest) < WalkStep
            THEN /\ people' = [people EXCEPT ![u] = [moved EXCEPT !.loc = moved.dest]]
                 /\ loopPc' = "replan"
                 /\ cur' = [NoCur EXCEPT !.kind = "replan", !.UID = u]
                 /\ UNCHANGED todo
            ELSE /\ people' = [people EXCEPT ![u] = moved]
                 /\ todo' = todo \ {u}
                 /\ UNCHANGED <<loopPc, cur>>
     ELSE /\ todo' = todo \ {u}
          /\ UNCHANGED <<people, loopPc, cur>>
  /\ UNCHANGED <<conn, obs, panicked>>
  /\ UNCHANGED LoopFrame

\* Person.Move: "Decide where to go" at an arrival, inside the sweep
LoopReplan ==
  /\ Running
  /\ loopPc = "replan"
  /\ \/ \E out \in Decide(osm, people[cur.UID]) :
          IF out.panic THEN Crash("Intn")
          ELSE /\ people' = [people EXCEPT ![cur.UID] = out.p]
               /\ todo' = todo \ {cur.UID}
               /\ loopPc' = "sweep"
               /\ cur' = NoCur
               /\ UNCHANGED <<conn, obs, panicked, accessors>>
               /\ UNCHANGED LoopFrame
     \/ /\ RandomizerUsers # {0}
        /\ Crash("randomizer race")

NextDraws ==
  \/ MainDial
  \/ TickerFire
  \/ \E c \in Conns : Accept(c)
  \/ \E c \in Conns : HandlerEOF(c)
  \/ \E c \in Conns : HandlerUnknown(c)
  \/ \E c \in Conns : \E args \in ArgLists : HandleStartEnter(c, args)
  \/ \E c \in Conns : HandleStartPlan(c)
  \/ \E c \in Conns : \E args \in ArgLists : HandlePos(c, args)
  \/ \E c \in Conns : \E args \in ArgLists : HandleStop(c, args)
  \/ \E c \in Conns : \E args \in ArgLists : HandlePause(c, args)
  \/ \E c \in Conns : \E args \in ArgLists : HandleCont(c, args)
  \/ \E c \in Conns : HandlerReply(c)
  \/ \E c \in Conns : LoopRecvPerson(c)
  \/ LoopStorePerson
  \/ \E c \in Conns : LoopRecvCommand(c)
  \/ LoopApplyCommand
  \/ LoopRecvTick
  \/ \E u \in UIDs : LoopMoveStep(u)
  \/ LoopReplan
  \/ LoopUpdatePeople
  \/ \E u \in UIDs : LoopUpsert(u)

\* two clients that both talk about one name, on the smallest map
InitDraws ==
  /\ clients = {1, 2}
  /\ names = {"a"}
  /\ osm = PlazaOsm
  /\ wander = NoWander
  /\ Started

SpecDraws == InitDraws /\ [][NextDraws]_vars

\* ------------------------------------------------------ the earlier engine
\* The event loop with the newPerson and ticker cases only; its Handler,
\* HandlePos, main and ticker read as those of the final engine.
ArrivalRadius == 8   \* "1 meter accuracy", in model units

\* Person{UID: uid, loc: n}: the struct has no enabled field
EarlyNewPerson(uid, n) ==
  [UID |-> uid, loc |-> n, dest |-> ZeroNode, bearing |-> North, way |-> NilWay]

\* a nil *Person in the map
IsNil(p) == p.UID = ""

\* Person.Move: along p.bearing, which nothing sets, and onto the
\* destination when it is less than a metre away; no new plan
EarlyMove(p, dist) ==
  LET moved == [p EXCEPT !.loc = NodeMove(p.loc, dist, p.bearing)] IN
  IF Distance(moved.loc, moved.dest) < ArrivalRadius
  THEN [moved EXCEPT !.loc = moved.dest]
  ELSE moved

\* HandleStart up to the send on newPerson
EarlyHandleStart(c, args) ==
  /\ Reading(c)
  /\ IF args = <<>> THEN IndexPanic
     ELSE \E n \in OsmRandNode(osm) :
            \E out \in Decide(osm, EarlyNewPerson(args[1], n)) :
              IF out.panic THEN Crash("Intn")
              ELSE /\ conn' = [conn EXCEPT ![c] =
                        [Entered(c, "Tstart", args) EXCEPT !.p = out.p, !.pc = "send"]]
                   /\ obs' = [obs EXCEPT ![c] = [InitObs EXCEPT !.chain = TRUE]]
                   /\ UNCHANGED panicked
                   /\ UNCHANGED HandlerFrame

\* HandleStop: the answer, then people[uid] = nil in the handler goroutine.
\* While the event loop is inside its range loop or at its own assignment
\* to the map, the write is a data race on the map: it lands, seen or not
\* by the range loop when the key is new, or the runtime fails.
EarlyHandleStop(c, args) ==
  /\ Reading(c)
  /\ IF args = <<>> THEN IndexPanic
     ELSE \/ /\ conn' = [conn EXCEPT ![c] =
                    [Entered(c, "Tstop", args) EXCEPT !.reply = "Rstop"]]
             /\ obs' = [obs EXCEPT ![c] = InitObs]
             /\ people' = [u \in Registered \cup {args[1]} |->
                             IF u = args[1] THEN NilPerson ELSE people[u]]
             /\ accessors' = accessors \cup {"handler"}
             /\ \/ todo' = todo
                \/ /\ loopPc = "sweep"
                   /\ args[1] \notin Registered
                   /\ todo' = todo \cup {args[1]}
             /\ UNCHANGED <<clients, names, osm, wander, missed, session, tickerC,
                            loopPc, cur, db, panicked>>
          \/ /\ loopPc \in {"sweep", "newPerson"}
             /\ Crash("map race")

\* HandlePause and HandleCont: the answer and nothing else
EarlyHandleNoop(c, word, args) ==
  /\ Reading(c)
  /\ IF args = <<>> THEN IndexPanic
     ELSE /\ conn' = [conn EXCEPT ![c] =
                [Entered(c, word, args) EXCEPT !.reply = RWord(word)]]
          /\ obs' = [obs EXCEPT ![c] = InitObs]
          /\ UNCHANGED panicked
          /\ UNCHANGED HandlerFrame

EarlyHandlePause(c, args) == EarlyHandleNoop(c, "Tpause", args)

EarlyHandleCont(c, args) == EarlyHandleNoop(c, "Tcontinue", args)

\* one iteration of for _, p := range people { p.Move(1.56464) }: a nil p
\* is dereferenced
EarlyLoopMove(u) ==
  /\ Running
  /\ loopPc = "sweep"
  /\ u \in todo
  /\ IF IsNil(people[u]) THEN Crash("nil dereference")
     ELSE /\ people[u].loc.Lat + WalkStep <= MaxNorth
          /\ people' = [people EXCEPT ![u] = EarlyMove(people[u], WalkStep)]
          /\ todo' = todo \ {u}
          /\ accessors' = accessors \cup {"loop"}
          /\ UNCHANGED <<loopPc, cur, conn, obs, panicked>>
          /\ UNCHANGED LoopFrame

\* the range loop is over: back to the select
EarlySweepEnd ==
  /\ Running
  /\ loopPc = "sweep"
  /\ todo = {}
  /\ loopPc' = "select"
  /\ UNCHANGED <<people, cur, todo, panicked, conn, obs, accessors>>
  /\ UNCHANGED LoopFrame

NextEarly ==
  \/ MainDial
  \/ TickerFire
  \/ \E c \in Conns : Accept(c)
  \/ \E c \in Conns : HandlerEOF(c)
  \/ \E c \in Conns : HandlerUnknown(c)
  \/ \E c \in Conns : \E args \in ArgLists : EarlyHandleStart(c, args)
  \/ \E c \in Conns : \E args \in ArgLists : HandlePos(c, args)
  \/ \E c \in Conns : \E args \in ArgLists : EarlyHandleStop(c, args)
  \/ \E c \in Conns : \E args \in ArgLists : EarlyHandlePause(c, args)
  \/ \E c \in Conns : \E args \in ArgLists : EarlyHandleCont(c, args)
  \/ \E c \in Conns : HandlerReply(c)
  \/ \E c \in Conns : LoopRecvPerson(c)
  \/ LoopStorePerson
  \/ LoopRecvTick
  \/ \E u \in UIDs : EarlyLoopMove(u)
  \/ EarlySweepEnd

\* one client, two names, the smallest map
InitEarly ==
  /\ clients = {1}
  /\ names = UIDs
  /\ osm = PlazaOsm
  /\ wander = NoWander
  /\ Started

SpecEarly == InitEarly /\ [][NextEarly]_vars

\* ------------------------------------------------------------------ Wander
\* The Wander goroutine of the earlier programs.  Indices into a way are
\* 0-based as in the source.
WanderSpeed == 1     \* p.Speed = 1.0

WanderFrame == <<clients, names, osm, missed, session, people, tickerC, loopPc, cur,
                 todo, db, panicked, conn, obs, accessors>>

\* osm.FindWays: the ways that contain the node id
FindWays(o, id) == {w \in DOMAIN o.Way : \E i \in DOMAIN o.Way[w] : o.Way[w][i] = id}

\* p.Way.Nodes[i]
WayNodeAt(o, w, i) == o.Way[w][i + 1]

\* the indices rand.Intn(len(p.Way.Nodes)) can return
WayIndices(o, w) == 0..(Len(o.Way[w]) - 1)

\* the loop that looks for the node in the way: the first index that holds
\* it, or the zero value
StartIdx(o, w, id) ==
  IF \E i \in WayIndices(o, w) : WayNodeAt(o, w, i) = id
  THEN CHOOSE i \in WayIndices(o, w) :
         /\ WayNodeAt(o, w, i) = id
         /\ \A j \in WayIndices(o, w) : WayNodeAt(o, w, j) = id => i <= j
  ELSE 0

\* variant: the next index is the destination index itself
NextIdxDirect(startidx, destidx) == destidx

\* "Which way do we traverse the list?"
NextIdx(startidx, destidx) ==
  IF destidx > startidx THEN startidx + 1
  ELSE IF destidx < startidx THEN startidx - 1
  ELSE startidx

\* Person.UpdateLatLonSpeed: <<LatSpeed, LonSpeed>>, a vector of length
\* Speed from n1 to n2 (atan2(0, 0) = 0 points east)
LatLonSpeed(n1, n2) ==
  LET r == Distance(n1, n2) IN
  IF r = 0 THEN <<0, WanderSpeed>>
  ELSE <<((n2.Lat - n1.Lat) * WanderSpeed) \div r, ((n2.Lon - n1.Lon) * WanderSpeed) \div r>>

\* the locals of Wander before its first statement; plansFrom is the
\* variable the navigation loop reads the node to plan from
StartWander(plansFrom) ==
  [pc |-> "start", plansFrom |-> plansFrom, curr |-> 0, OriginId |-> 0, Way |-> 0,
   startidx |-> 0, destidx |-> 0, nextidx |-> 0, WaypointId |-> 0,
   DestinationId |-> 0, Current |-> ZeroNode, LatSpeed |-> 0, LonSpeed |-> 0,
   row |-> NoRow]

\* c.Upsert of the current position: the row written
WanderRow(n) == [UID |-> "0", Lat |-> n.Lat, Lon |-> n.Lon]

\* a random way, a random node on it: "this is where we start"
WanderStart ==
  /\ wander.pc = "start"
  /\ \E w \in DOMAIN osm.Way : \E tmp \in WayIndices(osm, w) :
       wander' = [wander EXCEPT !.pc = "plan",
                                !.curr = WayNodeAt(osm, w, tmp),
                                !.OriginId = WayNodeAt(osm, w, tmp)]
  /\ UNCHANGED WanderFrame

\* the head of the navigation loop: the ways through the node, one of them
\* at random, the node's index in it, a first draw of the destination index
WanderPlan ==
  /\ wander.pc = "plan"
  /\ LET from == IF wander.plansFrom = "curr" THEN wander.curr ELSE wander.OriginId IN
       \E w \in FindWays(osm, from) : \E d \in WayIndices(osm, w) :
         wander' = [wander EXCEPT !.pc = "redraw",
                                  !.Way = w,
                                  !.startidx = StartIdx(osm, w, from),
                                  !.OriginId = WayNodeAt(osm, w, StartIdx(osm, w, from)),
                                  !.destidx = d]
  /\ UNCHANGED WanderFrame

\* for ; destidx == startidx; destidx = rand.Intn(len(p.Way.Nodes)) { }
WanderRedraw ==
  /\ wander.pc = "redraw"
  /\ IF wander.destidx = wander.startidx
     THEN \E d \in WayIndices(osm, wander.Way) : wander' = [wander EXCEPT !.destidx = d]
     ELSE wander' = [wander EXCEPT !.pc = "leg",
                                   !.DestinationId = WayNodeAt(osm, wander.Way, wander.destidx),
                                   !.nextidx = wander.startidx]
  /\ UNCHANGED WanderFrame

\* the head of the leg loop: break at the destination index, or else the
\* next waypoint, the speed toward it and the first upsert of the leg
WanderLeg ==
  /\ wander.pc = "leg"
  /\ IF wander.destidx = wander.startidx
     THEN wander' = [wander EXCEPT !.pc = "rest"]
     ELSE LET nextidx == NextIdx(wander.startidx, wander.destidx)
              n1 == NodeById(osm, wander.OriginId)
              n2 == NodeById(osm, WayNodeAt(osm, wander.Way, nextidx))
          IN \/ wander' = [wander EXCEPT !.pc = "walk",
                                         !.nextidx = nextidx,
                                         !.WaypointId = n2.Id,
                                         !.LatSpeed = LatLonSpeed(n1, n2)[1],
                                         !.LonSpeed = LatLonSpeed(n1, n2)[2],
                                         !.Current = [n1 EXCEPT !.Id = 0],
                                         !.row = WanderRow(n1)]
             \/ wander' = [wander EXCEPT !.pc = "dead"]
  /\ UNCHANGED WanderFrame

\* the walking loop: one step and its upsert while the waypoint is more
\* than Speed away, then the waypoint becomes the origin
WanderWalk ==
  /\ wander.pc = "walk"
  /\ IF Distance(wander.Current, NodeById(osm, wander.WaypointId)) > WanderSpeed
     THEN LET n == [Id |-> 0,
                    Lat |-> wander.Current.Lat + wander.LatSpeed,
                    Lon |-> wander.Current.Lon + wander.LonSpeed]
          IN \/ wander' = [wander EXCEPT !.Current = n, !.row = WanderRow(n)]
             \/ wander' = [wander EXCEPT !.pc = "dead"]
     ELSE wander' = [wander EXCEPT !.pc = "leg",
                                   !.startidx = wander.nextidx,
                                   !.OriginId = WayNodeAt(osm, wander.Way, wander.nextidx)]
  /\ UNCHANGED WanderFrame

\* "You must be tired, take a break!": back to the head of the loop
WanderRest ==
  /\ wander.pc = "rest"
  /\ wander' = [wander EXCEPT !.pc = "plan"]
  /\ UNCHANGED WanderFrame

NextWander ==
  \/ WanderStart
  \/ WanderPlan
  \/ WanderRedraw
  \/ WanderLeg
  \/ WanderWalk
  \/ WanderRest

\* the Wander that plans from p.OriginId
InitWander ==
  /\ clients = {}
  /\ names = {}
  /\ osm = AvenueOsm
  /\ wander = StartWander("OriginId")
  /\ Started

SpecWander == InitWander /\ [][NextWander]_vars

\* the Wander that plans from curr
InitWanderCurr ==
  /\ clients = {}
  /\ names = {}
  /\ osm = AvenueOsm
  /\ wander = StartWander("curr")
  /\ Started

SpecWanderCurr == InitWanderCurr /\ [][NextWander]_vars


\* ================================================================== claims
Handoff(c) == conn[c].pc = "send" /\ conn'[c].pc = "sent"

\* the event loop executes people[p.UID] = p
ApplyingPerson == loopPc = "newPerson" /\ loopPc' = "select"

\* the event loop executes the switch on c.Command, to its end or its panic
ApplyingCommand ==
  loopPc = "command" /\ (loopPc' = "select" \/ panicked' = "nil dereference")

Alive == panicked' = "none"

Nav(p) == <<p.loc, p.dest, p.bearing, p.way>>

\* C1 (as claimed): the event loop never takes a tick while a command that
\* was already being handed over when that tick fired is still waiting, so
\* such a command is never applied after that tick's sweep.
C1_NoCommandJumpsTick ==
  [][(AtSelect /\ loopPc' = "sweep") =>
       \A c \in Conns : ~(SendingCommand(c) /\ obs[c].order = "cmdFirst")]_vars

\* C1 (amended): a command is handed to the event loop only while the loop
\* is at its select with no sweep or publish in progress, and the loop
\* starts a sweep only from its select with no accepted event unapplied:
\* every command is applied wholly before or wholly after a tick's work,
\* in the order in which the select took the two.
C1_CommandNeverInsideTick ==
  [][/\ \A c \in Conns : Handoff(c) => (loopPc = "select" /\ todo = {})
     /\ (loopPc # "sweep" /\ loopPc' = "sweep") => (loopPc = "select" /\ cur = NoCur)
    ]_vars

\* a command that was pending when a tick fired waits while a sweep runs
C1_Witness ==
  /\ loopPc = "sweep"
  /\ todo # {}
  /\ \E c \in Conns : SendingCommand(c) /\ obs[c].order = "cmdFirst"

\* C2: when a connection sends Tstart x and then Tpause x, and no other
\* connection's event on x is applied in between, the pause finds x
\* registered and leaves it registered with enabled = FALSE.
C2_StartThenPause ==
  [][(/\ ApplyingCommand
      /\ cur.Command = PAUSE
      /\ conn[cur.from].tok.cmd = "Tpause"
      /\ obs[cur.from].chain)
     => (/\ cur.UID \in Registered
         /\ cur.UID \in DOMAIN people'
         /\ people'[cur.UID].enabled = FALSE)]_vars

\* the pause of a Tstart x, Tpause x pair has been applied and answered
C2_Witness ==
  \E c \in Conns :
    /\ conn[c].tok.cmd = "Tpause"
    /\ conn[c].reply = "Rpause"
    /\ obs[c].chain
    /\ obs[c].res = "ok"
    /\ conn[c].tok.args[1] \in Registered
    /\ people[conn[c].tok.args[1]].enabled = FALSE

\* C3: while a tick is being worked on (sweep and publish) the event loop
\* starts no other event and accepts no hand-over, the set of registered
\* agents and their enabled flags do not change, an agent changes only by
\* its own single advance of the sweep, and an event is applied only when
\* no sweep is under way.
C3_TickAtomic ==
  [][/\ (loopPc \in {"sweep", "publish"} /\ Alive) =>
          /\ loopPc' \in {"sweep", "publish", "select"}
          /\ (loopPc = "publish" => loopPc' # "sweep")
          /\ \A c \in Conns : ~Handoff(c)
          /\ tickerC' >= tickerC
          /\ DOMAIN people' = DOMAIN people
          /\ \A u \in DOMAIN people :
               /\ people'[u].enabled = people[u].enabled
               /\ people'[u] # people[u] =>
                    (loopPc = "sweep" /\ u \in todo /\ u \notin todo')
     /\ (loopPc' \in {"newPerson", "command"} /\ loopPc' # loopPc) =>
          (loopPc = "select" /\ todo = {})
    ]_vars

\* a sweep has advanced some agents and not yet the others, while a
\* hand-over and the next tick are both waiting
C3_Witness ==
  /\ loopPc = "sweep"
  /\ todo # {}
  /\ todo # Registered
  /\ tickerC = 1
  /\ \E c \in Conns : conn[c].pc = "send"

\* C4: only the event-loop goroutine reads or writes people and the
\* registered persons; a step that changes people never is a handler's step.
C4_OnlyLoopTouchesPeople ==
  /\ [](accessors \subseteq {"loop"})
  /\ [][(people' # people /\ Alive) => (conn' = conn /\ <<loopPc, todo>>' # <<loopPc, todo>>)]_vars

\* the loop has used the registry and a handler has finished a Tstop
C4_Witness ==
  /\ accessors = {"loop"}
  /\ Registered # {}
  /\ \E c \in Conns : conn[c].reply = "Rstop" /\ obs[c].res = "ok"

\* C5 (as claimed): a creation for a registered id leaves the registered
\* agent as it is and is not answered with Rstart.
C5_DuplicateCreateRejected ==
  /\ [][(ApplyingPerson /\ cur.UID \in Registered) =>
          (cur.UID \in DOMAIN people' /\ people'[cur.UID] = people[cur.UID])]_vars
  /\ [](\A c \in Conns : ~(obs[c].res = "dup" /\ conn[c].reply = "Rstart"))

\* C6 (as claimed): applying PAUSE or CONTINUE for an unregistered id
\* leaves the process alive, the registry unchanged and the loop at select.
C6_UnknownPauseSurvives ==
  [][(/\ ApplyingCommand
      /\ cur.Command \in {PAUSE, CONTINUE}
      /\ cur.UID \notin Registered)
     => (Alive /\ people' = people /\ loopPc' = "select")]_vars

\* C7 (as claimed): a Tstop whose id was not registered when the stop was
\* applied is not answered with Rstop.
C7_UnknownStopReported ==
  \A c \in Conns :
    ~(conn[c].tok.cmd = "Tstop" /\ obs[c].res = "unknown" /\ conn[c].reply = "Rstop")

\* C8: a registered agent with enabled = FALSE keeps its position,
\* destination, bearing and way and stays registered in every step (ticks
\* and CONTINUE included) other than a STOP or a creation for its own id.
C8_PausedAgentFrozen ==
  [][\A u \in DOMAIN people :
       (people[u].enabled = FALSE /\ Alive) =>
         \/ ApplyingCommand /\ cur.UID = u /\ cur.Command = STOP
         \/ ApplyingPerson /\ cur.UID = u
         \/ u \in DOMAIN people' /\ Nav(people'[u]) = Nav(people[u])]_vars

\* a sweep has passed over a paused agent and advanced an enabled one
C8_Witness ==
  /\ loopPc = "sweep"
  /\ \E u, v \in Registered :
       /\ people[u].enabled = FALSE /\ u \notin todo
       /\ people[v].enabled = TRUE /\ v \notin todo
       /\ people[v].loc.Id = 0

Advanced(u) ==
  /\ loopPc = "sweep" /\ u \in todo /\ u \notin todo'
  /\ people[u].enabled = TRUE
  /\ Alive

\* C9 (as claimed): an enabled agent at least WalkStep from its destination
\* moves exactly WalkStep, one nearer than WalkStep lands on the
\* destination, and none moves more than WalkStep in a tick.
C9_StepOrArrive ==
  [][\A u \in DOMAIN people : Advanced(u) =>
       LET p == people[u]
           q == people'[u]
           r == Distance(p.loc, p.dest)
       IN /\ r >= WalkStep =>
               /\ Dist2(p.loc, q.loc) = Sq(WalkStep)
               /\ Distance(q.loc, p.dest) = r - WalkStep
               /\ q.loc # p.dest
          /\ r < WalkStep => q.loc = p.dest
          /\ Dist2(p.loc, q.loc) <= Sq(WalkStep)]_vars

\* C9 (amended): the agent is moved WalkStep along the bearing and then put
\* on the destination when less than WalkStep is left.  With r the distance
\* before the tick: r >= 2*WalkStep moves it exactly WalkStep nearer and it
\* keeps its destination and way; 0 < r < 2*WalkStep puts it exactly on the
\* destination; no agent moves 2*WalkStep or more in a tick.
C9_StepThenSnap ==
  [][\A u \in DOMAIN people : Advanced(u) =>
       LET p == people[u]
           q == people'[u]
           r == Distance(p.loc, p.dest)
       IN /\ r >= 2 * WalkStep =>
               /\ Dist2(p.loc, q.loc) = Sq(WalkStep)
               /\ Distance(q.loc, p.dest) = r - WalkStep
               /\ q.dest = p.dest /\ q.way = p.way
          /\ (0 < r /\ r < 2 * WalkStep) => q.loc = p.dest
          /\ r = 0 => Dist2(p.loc, q.loc) <= Sq(WalkStep)
          /\ Dist2(p.loc, q.loc) < Sq(2 * WalkStep)]_vars

\* an agent that was more than one and less than two steps away has been
\* put on its destination by one tick
C9_Witness ==
  /\ loopPc = "sweep"
  /\ \E u \in Registered :
       /\ u \notin todo
       /\ people[u].enabled = TRUE
       /\ people[u].loc.Id = 3
       /\ people[u].bearing = <<0, WalkStep>>
       /\ people[u].dest.Id = 1

\* C10: applying STOP leaves the id unregistered; an unregistered id is
\* never in a sweep or a publish, its database row is not written, and only
\* a creation for that id registers it again.
C10_StoppedStaysOut ==
  /\ [](todo \subseteq Registered)
  /\ [][Alive =>
         /\ (ApplyingCommand /\ cur.Command = STOP) => cur.UID \notin DOMAIN people'
         /\ \A u \in UIDs : u \notin DOMAIN people =>
              /\ db'[u] = db[u]
              /\ u \in DOMAIN people' => (ApplyingPerson /\ cur.UID = u)
       ]_vars

\* a later tick has swept and is publishing the remaining agent while an
\* agent that was published before is stopped
C10_Witness ==
  /\ loopPc = "publish"
  /\ \E u \in UIDs : u \notin Registered /\ db[u].UID = u
  /\ \E v \in Registered : v \in todo /\ people[v].loc.Id = 0

\* C11: the creation the event loop applies leaves, under its id, an agent
\* with that id, enabled = TRUE, standing on a node of the map, with a way
\* of the map and a destination that is a node of the map (on a map whose
\* nodes all lie on a way).
C11_CreatedAgentPlanned ==
  [][(ApplyingPerson /\ \A n \in OsmRandNode(osm) : NodeWay(osm, n) # {}) =>
       /\ cur.UID \in DOMAIN people'
       /\ LET q == people'[cur.UID] IN
            /\ q.UID = cur.UID
            /\ q.enabled = TRUE
            /\ q.loc \in OsmRandNode(osm)
            /\ q.dest \in OsmRandNode(osm)
            /\ q.way \in DOMAIN osm.Way]_vars

\* a Tstart has been stored and answered: the agent stands on one node of
\* the triangle and is headed for another
C11_Witness ==
  \E c \in Conns :
    /\ conn[c].tok.cmd = "Tstart"
    /\ conn[c].reply = "Rstart"
    /\ obs[c].res = "ok"
    /\ LET u == conn[c].tok.args[1] IN
         /\ u \in Registered
         /\ people[u].enabled = TRUE
         /\ people[u].loc.Id = 2
         /\ people[u].dest.Id = 3

\* C12: PAUSE applied to a registered agent that is already paused, and
\* CONTINUE applied to one that is already enabled, leave the whole
\* registry as it was.
C12_PauseContinueIdempotent ==
  [][(/\ ApplyingCommand
      /\ cur.UID \in Registered
      /\ \/ cur.Command = PAUSE /\ people[cur.UID].enabled = FALSE
         \/ cur.Command = CONTINUE /\ people[cur.UID].enabled = TRUE)
     => (Alive /\ people' = people)]_vars

\* a Tpause that found its agent already paused has been applied and
\* answered, next to another agent
C12_Witness ==
  \E c \in Conns :
    /\ conn[c].tok.cmd = "Tpause"
    /\ conn[c].reply = "Rpause"
    /\ obs[c].res = "same"
    /\ conn[c].tok.args[1] \in Registered
    /\ people[conn[c].tok.args[1]].enabled = FALSE
    /\ Registered # {conn[c].tok.args[1]}

\* C13 (as claimed): on a map with a node that no way passes through, no
\* creation and no tick ends the process in the random draw of a way
\* (Intn of zero ways).
C13_IsolatedNodeSurvives == panicked # "Intn"

\* C14 (as claimed): a failed upsert during a tick's publish does not end
\* the process.
C14_UpsertFailureSurvives == panicked # "upsert"

\* C15 (as claimed): a line with a known command word and no name does not
\* end the process in the handler's args[0], and every answered line that
\* is not a T-message is answered with Rerror.
C15_InvalidLineRejected ==
  /\ panicked # "index out of range"
  /\ \A c \in Conns :
       (conn[c].tok.cmd = "Tbogus" /\ conn[c].pc = "read") => conn[c].reply = "Rerror"

\* C16: agents exist only while the session is open; when a sweep ends,
\* the publish takes every registered agent, enabled or paused; during the
\* publish no agent changes, each step of it upserts one agent not yet
\* published with its position after the sweep, and nothing else writes
\* the collection; when the publish ends every registered agent's row is
\* its position after the sweep.
C16_PublishSnapshot ==
  /\ [](session = "nil" => Registered = {})
  /\ [][Alive =>
         /\ (loopPc = "sweep" /\ loopPc' # "sweep") =>
              \/ loopPc' = "publish" /\ todo' = Registered
              \/ loopPc' = "select" /\ Registered = {}
         /\ loopPc = "publish" =>
              /\ people' = people
              /\ todo' = todo => db' = db
              /\ todo' # todo =>
                   \E u \in todo :
                     /\ todo' = todo \ {u}
                     /\ db' = [db EXCEPT ![u] = DBPerson(people[u])]
         /\ (loopPc = "publish" /\ loopPc' # "publish") =>
              /\ loopPc' = "select"
              /\ todo' = {}
              /\ \A u \in Registered : db'[u] = DBPerson(people[u])
         /\ loopPc # "publish" => db' = db
       ]_vars

\* a publish has ended with a paused agent and a moved agent both in the
\* collection at their positions
C16_Witness ==
  /\ loopPc = "select"
  /\ \E u, v \in Registered :
       /\ people[u].enabled = FALSE
       /\ people[v].enabled = TRUE
       /\ people[v].loc.Id = 0
  /\ \A u \in Registered : db[u] = DBPerson(people[u])

\* the agent stands on a node of the map: it has just been planned, at its
\* creation or at an arrival (a moved position has no Id)
OnNode(p) == p.loc.Id # 0 /\ p.way \in DOMAIN osm.Way

\* C17 (as claimed): an agent that has just been planned on a way of two or
\* more nodes has a destination other than the node it stands on.
C17_DestinationNotOrigin ==
  \A u \in Registered :
    (OnNode(people[u]) /\ Len(osm.Way[people[u].way]) >= 2) =>
      people[u].dest.Id # people[u].loc.Id

\* C18 (as claimed): the destination of a planned agent is a node of the
\* way recorded for it.
C18_DestinationOnWay ==
  \A u \in Registered :
    people[u].way \in DOMAIN osm.Way =>
      people[u].dest \in WayNodes(osm, people[u].way)

\* x lies on the straight segment from node a to node b
OnSegment(a, b, x) ==
  /\ (b.Lat - a.Lat) * (x.Lon - a.Lon) = (b.Lon - a.Lon) * (x.Lat - a.Lat)
  /\ (x.Lat - a.Lat) * (x.Lat - b.Lat) <= 0
  /\ (x.Lon - a.Lon) * (x.Lon - b.Lon) <= 0

\* C19 (as claimed): every agent's position is a node of its way or lies
\* between two consecutive nodes of its way.
C19_PositionOnWay ==
  \A u \in Registered :
    people[u].way \in DOMAIN osm.Way =>
      LET w == osm.Way[people[u].way] IN
        \/ \E i \in DOMAIN w :
             NodeById(osm, w[i]).Lat = people[u].loc.Lat
               /\ NodeById(osm, w[i]).Lon = people[u].loc.Lon
        \/ \E i \in 1..(Len(w) - 1) :
             OnSegment(NodeById(osm, w[i]), NodeById(osm, w[i + 1]), people[u].loc)

\* C20 (as claimed): a tick's advance of an enabled agent either puts it on
\* its destination or leaves it strictly nearer to the same destination.
C20_EveryTickNearer ==
  [][\A u \in DOMAIN people : Advanced(u) =>
       \/ people'[u].loc.Lat = people[u].dest.Lat
            /\ people'[u].loc.Lon = people[u].dest.Lon
       \/ /\ people'[u].dest = people[u].dest
          /\ Distance(people'[u].loc, people'[u].dest)
               < Distance(people[u].loc, people[u].dest)]_vars

\* C21: when the agent has arrived and plans again, the way it takes is one
\* of the ways through the node it has just reached and the start index of
\* the next leg is that node's index in the way, whatever node the agent
\* started from.
C21_ReplansFromArrival ==
  [][(wander.pc = "plan" /\ wander'.pc = "redraw") =>
       /\ wander'.Way \in FindWays(osm, wander.OriginId)
       /\ WayNodeAt(osm, wander'.Way, wander'.startidx) = wander.OriginId
       /\ wander'.OriginId = wander.OriginId
    ]_vars

\* C22 (as claimed): no firing of the ticker is lost, every firing is kept
\* for the event loop to sweep.
C22_NoTickLost == missed = FALSE

\* C22 (amended): ticker.C holds at most one tick; a sweep starts only from
\* the select, after the work of the previous tick has ended, and takes the
\* one waiting tick; a firing is lost exactly when a tick is already
\* waiting, so while the loop is busy one tick is delayed and the further
\* ones are dropped.
C22_OneTickWaits ==
  /\ [](tickerC \in {0, 1})
  /\ [][/\ (loopPc # "sweep" /\ loopPc' = "sweep") =>
            (loopPc = "select" /\ todo = {} /\ tickerC = 1 /\ tickerC' = 0)
        /\ (tickerC' > tickerC) => (tickerC = 0 /\ ~missed')
        /\ (missed' /\ ~missed) => (tickerC = 1 /\ tickerC' = 1)
       ]_vars

\* the ticker has fired again while a tick was waiting and a sweep was
\* still at work
C22_Witness ==
  /\ missed
  /\ tickerC = 1
  /\ loopPc = "sweep"
  /\ todo # {}

C24_OneNodeWaySkipped ==
  wander.pc = "redraw" => Len(osm.Way[wander.Way]) >= 2

\* C25: in the leg loop the next index is the neighbour of the origin index
\* on the side of the destination index and lies inside the way, the
\* waypoint is the node at that index, the origin index becomes that index
\* when the leg is walked, the way and the destination index stay as
\* planned, and the loop is left exactly when the origin index equals the
\* destination index.
C25_LegByLeg ==
  [][/\ (wander.pc = "leg" /\ wander'.pc = "walk") =>
          /\ wander.startidx # wander.destidx
          /\ wander'.nextidx \in {wander.startidx - 1, wander.startidx + 1}
          /\ wander'.nextidx \in WayIndices(osm, wander.Way)
          /\ (wander.destidx > wander.startidx) = (wander'.nextidx > wander.startidx)
          /\ wander'.WaypointId = WayNodeAt(osm, wander.Way, wander'.nextidx)
          /\ wander'.startidx = wander.startidx
     /\ (wander.pc = "walk" /\ wander'.pc = "leg") =>
          /\ wander'.startidx = wander.nextidx
          /\ wander'.OriginId = wander.WaypointId
     /\ (wander.pc = "leg" /\ wander'.pc = "rest") =>
          /\ wander.startidx = wander.destidx
          /\ wander.OriginId = wander.DestinationId
     /\ (wander.pc \in {"leg", "walk"}) =>
          /\ wander'.Way = wander.Way
          /\ wander'.destidx = wander.destidx
          /\ wander'.pc \in {"leg", "walk", "rest", "dead"}
    ]_vars

\* the agent started at the first node of the avenue and has walked both of
\* its legs to the last node
C25_Witness ==
  /\ wander.pc = "rest"
  /\ wander.curr = 1
  /\ wander.Way = 1
  /\ wander.startidx = 2
  /\ wander.nextidx = 2
  /\ wander.OriginId = 3
  /\ wander.Current.Lon = 3

\* C28: when the event loop applies a creation or a stop, pause or continue
\* command for one id and the process survives it, every other registered
\* agent is still registered and has the same position, destination,
\* bearing, way and enabled flag.
C28_OthersUntouched ==
  [][((ApplyingPerson \/ ApplyingCommand) /\ Alive) =>
       \A u \in Registered \ {cur.UID} :
         /\ u \in DOMAIN people'
         /\ people'[u] = people[u]
    ]_vars

\* a stop has been applied and acknowledged while another agent, in the
\* middle of its walk, is registered
C28_Witness ==
  \E c \in Conns :
    /\ conn[c].tok.cmd = "Tstop"
    /\ obs[c].res = "ok"
    /\ \E u \in Registered : u # conn[c].tok.args[1] /\ people[u].loc.Id = 0

\* the event loop is at work on a tick: it takes the tick, sweeps or publishes
InTick == loopPc \in {"sweep", "publish"} \/ (loopPc = "select" /\ loopPc' = "sweep")

\* C29: no step of a tick changes the set of registered ids or the enabled
\* flag of an agent; the set of registered ids changes only when the event
\* loop applies a creation or a stop, and the enabled flag of an agent that
\* stays registered changes only when the event loop applies a pause or a
\* continue for it, a creation for its id putting a new agent in its place.
C29_TickKeepsRegistryAndFlags ==
  [][Alive =>
       /\ InTick =>
            /\ DOMAIN people' = Registered
            /\ \A u \in Registered : people'[u].enabled = people[u].enabled
       /\ DOMAIN people' # Registered =>
            (ApplyingPerson \/ (ApplyingCommand /\ cur.Command = STOP))
       /\ \A u \in Registered \cap DOMAIN people' :
            people'[u].enabled # people[u].enabled =>
              \/ ApplyingCommand /\ cur.Command \in {PAUSE, CONTINUE} /\ cur.UID = u
              \/ ApplyingPerson /\ cur.UID = u
    ]_vars

\* a sweep has gone over a paused agent and over an agent it has moved
C29_Witness ==
  /\ loopPc = "sweep"
  /\ todo = {}
  /\ \E u, v \in Registered :
       /\ people[u].enabled = FALSE
       /\ people[v].enabled = TRUE
       /\ people[v].loc.Id = 0

\* the destination lies on a way, and every way through it has a node
Plannable(p) ==
  /\ NodeWay(osm, p.dest) # {}
  /\ \A w \in NodeWay(osm, p.dest) : WayNodes(osm, w) # {}

\* C30: the destination of every registered agent, and of every agent on
\* its way to the event loop, is a node of the map that lies on a way, so
\* no outcome of the agent's next move, and so no iteration of a sweep,
\* fails in the draw of a way or of a node, also on a map that has a node
\* on no way.
C30_ReplanNeverFails ==
  /\ \A u \in Registered :
       /\ Plannable(people[u])
       /\ \A out \in PersonMove(osm, people[u], WalkStep) : ~out.panic
       /\ \A out \in TickBody(osm, people[u]) : ~out.panic
  /\ \A c \in Conns : conn[c].pc = "send" /\ conn[c].tok.cmd = "Tstart" =>
                          Plannable(conn[c].p)

\* an agent has walked away from its destination, come back, arrived and
\* planned again
C30_Witness ==
  \E u \in Registered :
    /\ people[u].loc.Id = 1
    /\ people[u].bearing = <<0, 0 - WalkStep>>

\* C26: under fair scheduling a handler that is blocked handing a creation
\* or a command to the event loop is eventually served, whatever the ticker
\* does: the event is accepted, the event loop applies it, and the handler
\* writes its R-message and reads the next line, unless the process ends in
\* a panic first.
C26_NoHandlerStarves ==
  \A c \in Conns :
    /\ (conn[c].pc = "send") ~>
         (panicked # "none" \/ (conn[c].pc = "sent" /\ cur.from = c))
    /\ (cur.from = c) ~> (panicked # "none" \/ cur.from # c)
    /\ (conn[c].pc = "sent") ~>
         (panicked # "none" \/ (conn[c].pc = "read" /\ conn[c].reply # NoReply))

\* a handler waits to hand over a command while a sweep is at work, a tick
\* is waiting and the ticker has fired again
C26_Witness ==
  \E c \in Conns :
    /\ SendingCommand(c)
    /\ loopPc = "sweep"
    /\ tickerC = 1
    /\ missed

\* C27: in the earlier engine the map of people is changed by steps of the
\* event loop only, so a stop never writes to it while a sweep is ranging
\* over it, and no sweep fails on a stopped agent.
C27_StopThroughLoop ==
  [][/\ (people' # people /\ Alive) => conn' = conn
     /\ ~(loopPc = "sweep" /\ panicked' \in {"nil dereference", "map race"})
    ]_vars

\* C31: at most one goroutine at a time is inside a draw from the shared
\* randomizer: the planning of a HandleStart overlaps neither the planning
\* of the event loop at an arrival nor the planning of another HandleStart.
C31_OneUserOfRandomizer == Cardinality(RandomizerUsers) <= 1

====
